---- MODULE Spec2Model ----
(***************************************************************************)
(* Model of the collection-orchestration core of the threat-intelligence   *)
(* service: the MySQL dedup tables used by AbuseIPDBCollector and          *)
(* VirusTotalCollector, the schedule loop of FlaskApp, the continuous      *)
(* workers (collect_continuous / stop_collection) and the artifact files   *)
(* written by the batch collectors and read by the API services.           *)
(*                                                                         *)
(* Each subsystem has its own specification over the shared variables:     *)
(*   SpecDedup    the dedup tables and the discovery / fetch / store loop   *)
(*   SpecSched    the schedule loop of FlaskApp.start_scheduler             *)
(*   SpecWorker   collect_continuous / stop_collection of one worker        *)
(*   SpecPublish  OpenCTICollector.save_indicators against the API reader   *)
(***************************************************************************)
EXTENDS Integers, Sequences, FiniteSets, TLC

VARIABLES
    \* ---- MySQL tables (shared by every worker) ----
    Combined_IP_Score,      \* function ip -> score, the candidate table
    AbuseIPDB_IP_Report,    \* set of rows [ip_address, isp, score, label]
    Invalid_IPs,            \* set of ip_address
    VirusTotal_IP_Info,     \* set of rows [ip_address, positive, engine_detections, update_time]
    now,                    \* NOW() of the database server, in days
    \* ---- the workers of the discovery / fetch / store loop ----
    source,                 \* the collector class whose workers are followed
    refused,                \* the ips whose VirusTotal page never gives a result
    halt,                   \* worker -> "no", "requested" (stop_collection called), "stopped"
    after_stop,             \* worker -> fetches started after stop_collection was called
    ip_list,                \* worker -> rest of the batch returned by get_ips_to_scrape
    vt_ip,                  \* worker -> ip returned by get_ip_from_db, or None
    last_op,                \* the operation performed by the last step, with its arguments
    mark_called,            \* ips for which mark_ip_as_invalid has been called
    mark_committed,         \* ips for which mark_ip_as_invalid has committed
    \* ---- the scheduler thread (run_schedule) ----
    sclock,                 \* datetime.now() of the scheduler thread, in seconds
    next_run,               \* job -> Job.next_run
    last_run,               \* job -> Job.last_run, NoneTime before the first run
    spc,                    \* position of run_schedule: "run_pending", "running", "sleep"
    runnable,               \* the jobs run_pending has still to run in this call
    tick,                   \* the call of run_pending in progress or just finished
    ticks,                  \* number of calls of run_pending so far
    sched_op,               \* the last run of a job: handler outcome, records, times
    \* ---- the thread of a continuous collector (collect_continuous) ----
    running,                \* self.running
    wpc,                    \* position: "top", "cycle", "work", "fetch", "sleep",
                            \* "returned" (the loop has ended), "crashed" (an exception left it)
    driver,                 \* the browser session: "open", "quit", "none" (self.driver = None)
    conn,                   \* self.conn: "open", "closed", "none" (no persistent connection)
    delay,                  \* seconds of the last time.sleep of the loop
    err_delays,             \* delays of the failed cycles since the last good one (the last MaxStreak)
    err_first,              \* the first of them
    prev_streak,            \* length of err_delays when the last good cycle ended
    acq_log,                \* the last MaxAttempts acquisition attempts: outcome, delay slept before
    cyc,                    \* what the cycle in progress has done
    stop_at,                \* wpc at the call of stop_collection, None before
    fetch_after_stop,       \* a fetch has started after the call of stop_collection
    cycle_end,              \* how the last finished cycle ended: outcome class, release
    nthreads,               \* threads alive inside collect_continuous of this collector
    starts,                 \* calls of start_*_collector after the first
    restart,                \* what a call of start_*_collector after a stop has done
    \* ---- the artifact directory ./threat_intelligence ----
    files,                  \* run -> the text of its file so far; the domain is the files that exist
    wr,                     \* save_indicators: position and run
    rd,                     \* load_latest_threat_intelligence: position, files to read, answer
    observed,               \* what the reads of the reader have returned
    \* ---- the rules directory of EmergingThreatCollector and RulesService ----
    today,                  \* the date, as the number of the day
    rules_dirs,             \* day -> its dated directory: exists, ctime, files
    et,                     \* EmergingThreatCollector.collect: position, directory, files to download
    published,              \* the directory as the last run without a failure has left it
    rules_op,               \* the last answer of get_latest_rules_files
    \* ---- FlaskApp.__init__ ----
    boot,                   \* position of __init__, collectors built, jobs and threads started
    job_results,            \* scheduled job -> how its last run ended
    \* ---- AbuseIPDBSitemapCollector and OpenCTICollector.get_indicators ----
    processed_ips,          \* self.processed_ips of the sitemap collector
    sitemap_op,             \* the last call of the sitemap collector: tables before, ips handled
    ind,                    \* one run of save_indicators: the answers of the API, the result
    \* ---- the waits of the fetches ----
    waits                   \* wait site -> where the caller is, the seconds it has waited

dbvars == <<Combined_IP_Score, AbuseIPDB_IP_Report, Invalid_IPs, VirusTotal_IP_Info, now>>
dedupvars == <<source, refused, halt, after_stop, ip_list, vt_ip, last_op, mark_called, mark_committed>>
schedvars == <<sclock, next_run, last_run, spc, runnable, tick, ticks, sched_op>>
workervars == <<running, wpc, driver, conn, delay, err_delays, err_first, prev_streak,
                acq_log, cyc, stop_at, fetch_after_stop, cycle_end, nthreads, starts, restart>>
pubvars == <<files, wr, rd, observed>>
rulesvars == <<today, rules_dirs, et, published, rules_op>>
bootvars == <<boot, job_results>>
feedvars == <<processed_ips, sitemap_op, ind, waits>>
vars == <<dbvars, dedupvars, schedvars, workervars, pubvars, rulesvars, bootvars, feedvars>>

\* What the steps of one subsystem leave alone.
notdedup == <<schedvars, workervars, pubvars, rulesvars, bootvars, feedvars>>
notsched == <<dbvars, dedupvars, workervars, pubvars, rulesvars, bootvars, feedvars>>
notworker == <<dbvars, dedupvars, schedvars, pubvars, rulesvars, bootvars, feedvars>>
notpub == <<dbvars, dedupvars, schedvars, workervars, rulesvars, bootvars, feedvars>>
notrules == <<dbvars, dedupvars, schedvars, workervars, pubvars, bootvars, feedvars>>
notfeed == <<dedupvars, schedvars, workervars, pubvars, rulesvars, bootvars>>
notboot == <<dbvars, dedupvars, schedvars, workervars, pubvars, rulesvars, feedvars>>

None == "None"      \* Python None where a string is expected
NoIP == << >>       \* Python None where an ip is expected

\* ------------------------------------------------------------------------
\* Bounds of the model
\* ------------------------------------------------------------------------
MaxNow == 2          \* the database clock runs from day 0 to day MaxNow
MaxBatch == 2        \* batch_size arguments range over 1..MaxBatch

OneDay == 1          \* INTERVAL 1 DAY of get_ip_from_db, in the unit of now

\* ------------------------------------------------------------------------
\* Candidates and fetch results
\* ------------------------------------------------------------------------
\* An IPv4 address is the tuple of its four octets.
IPs == { <<8, 8, 8, 8>>, <<1, 1, 1, 1>>, <<9, 9, 9, 9>>, <<10, 0, 0, 1>> }
\* The candidate an earlier run of the collector has marked invalid.
MarkedBefore == <<9, 9, 9, 9>>
Workers == {"w1", "w2"}

\* invalid_ip_pattern: ^(0\.|10\.|127\.|169\.254\.|172\.(1[6-9]|2[0-9]|3[01])\.|192\.168\.|224\.|240\.)
invalid_ip_pattern(ip) ==
    \/ ip[1] \in {0, 10, 127, 224, 240}
    \/ ip[1] = 169 /\ ip[2] = 254
    \/ ip[1] = 172 /\ ip[2] \in 16..31
    \/ ip[1] = 192 /\ ip[2] = 168

is_valid_public_ip(ip) == ~ invalid_ip_pattern(ip)

\* What scrape_ip_data can return for ip: the dict of the scraped fields
\* (country and update_time travel like isp and are left out).
ScrapedData(ip) ==
    { [ip |-> ip, isp |-> "isp-a", score |-> 0,  label |-> None],
      [ip |-> ip, isp |-> "isp-b", score |-> 90, label |-> "ssh"] }

\* What VirusTotalCollector.scrape can return for an ip: a dict with every key
\* set (total, country, total_files and jarm travel like positive).
VTResults ==
    { [positive |-> 0, engines |-> << >>, relations |-> << >>],
      [positive |-> 3,
       engines |-> << [engine |-> "E1", status |-> "clean"],
                      [engine |-> "E1", status |-> "malicious"] >>,
       relations |-> << "f1" >>] }

\* ------------------------------------------------------------------------
\* The dedup store: AbuseIPDBCollector
\* ------------------------------------------------------------------------
Range(s) == { s[i] : i \in 1..Len(s) }

Min(a, b) == IF a <= b THEN a ELSE b

\* insert_data: the label column is the JSON text of the scraped label.
json_label(label) ==
    IF label = None THEN "{\"value\": \"None\"}" ELSE "\"" \o label \o "\""

ReportRow(data) ==
    [ip_address |-> data.ip, isp |-> data.isp, score |-> data.score,
     label |-> json_label(data.label)]

\* A plain INSERT, without the ON DUPLICATE KEY UPDATE clause and without a key.
PlainInsert(table, row) == table \cup { row }

\* INSERT ... ON DUPLICATE KEY UPDATE col = VALUES(col), ...: the row with the
\* key of `row` is replaced by `row`, or `row` is added when there is none.
Upsert(table, row) ==
    { r \in table : r.ip_address # row.ip_address } \cup { row }

RowsOf(table, ip) == { r \in table : r.ip_address = ip }

\* The WHERE clause without its second NOT EXISTS (the one on Invalid_IPs).
UnprocessedIgnoringInvalid ==
    { ip \in DOMAIN Combined_IP_Score : RowsOf(AbuseIPDB_IP_Report, ip) = {} }

\* The WHERE clause of the RankedIPs query of get_ips_to_scrape.
Unprocessed ==
    { ip \in DOMAIN Combined_IP_Score :
        /\ RowsOf(AbuseIPDB_IP_Report, ip) = {}
        /\ ip \notin Invalid_IPs }

\* ORDER BY score DESC LIMIT n over the set S: every list of Min(n, |S|)
\* distinct members of S in descending score order that leaves out no member
\* scoring higher than one it holds (MySQL breaks ties as it likes).
RankedIPs(S, n) ==
    { s \in UNION { [1..k -> S] : k \in {Min(n, Cardinality(S))} } :
        /\ \A i, j \in 1..Len(s) : i < j =>
              /\ s[i] # s[j]
              /\ Combined_IP_Score[s[i]] >= Combined_IP_Score[s[j]]
        /\ \A x \in S \ Range(s) : \A i \in 1..Len(s) :
              Combined_IP_Score[s[i]] >= Combined_IP_Score[x] }

\* get_ips_to_scrape(batch_size): the lists it can return. A database error
\* is caught and gives [].
get_ips_to_scrape(batch_size, dbok) ==
    IF dbok
    THEN { SelectSeq(s, is_valid_public_ip) : s \in RankedIPs(Unprocessed, batch_size) }
    ELSE { << >> }

\* mark_ip_as_invalid(ip): Invalid_IPs afterwards. A database error is caught
\* and rolled back.
mark_ip_as_invalid(ip, dbok) ==
    IF dbok THEN Invalid_IPs \cup {ip} ELSE Invalid_IPs

\* An insert_data that commits nothing.
insert_data_dropped(data, dbok) == AbuseIPDB_IP_Report

\* insert_data(data): AbuseIPDB_IP_Report afterwards. A database error is
\* caught and rolled back.
insert_data(data, dbok) ==
    IF dbok THEN Upsert(AbuseIPDB_IP_Report, ReportRow(data)) ELSE AbuseIPDB_IP_Report

\* The record of a step: the operation, the worker that ran it, the ip it was
\* about, whether the database accepted it, the rows of that ip before it and
\* the data handed to it.
\* The data of a step that has fetched nothing.
NoData == [error |-> None]

Op(name, w, ip, ok, before, data) ==
    [op |-> name, worker |-> w, ip |-> ip, ok |-> ok, before |-> before, data |-> data]

MaxAfterStop == 2    \* fetches counted after a call of stop_collection

\* A fetch of worker w starts: it is counted if stop_collection has been
\* called before.
fetch_started(w) ==
    [after_stop EXCEPT ![w] = IF halt[w] = "requested" /\ @ < MaxAfterStop THEN @ + 1 ELSE @]

\* scrape_ips has returned or raised: `while self.running` ends the loop of
\* collect_continuous if stop_collection has been called.
loop_test(w) ==
    [halt EXCEPT ![w] = IF @ = "requested" THEN "stopped" ELSE @]

\* scrape_ips, top of the while loop: the next batch is discovered. An empty
\* batch ends scrape_ips. Neither scrape_ips nor its for loop reads
\* self.running.
ScrapeIpsNextBatch(w) ==
    /\ source = "abuseipdb"
    /\ UNCHANGED notdedup
    /\ halt[w] # "stopped"
    /\ ip_list[w] = << >>
    /\ \E batch_size \in 1..MaxBatch, dbok \in BOOLEAN :
         \E result \in get_ips_to_scrape(batch_size, dbok) :
            /\ ip_list' = [ip_list EXCEPT ![w] = result]
            /\ halt' = IF result = << >> THEN loop_test(w) ELSE halt
            /\ last_op' = Op("get_ips_to_scrape", w, NoIP, dbok, {}, NoData)
    /\ UNCHANGED <<dbvars, source, refused, after_stop, vt_ip, mark_called, mark_committed>>

\* scrape_ips, one turn of the for loop, the fetch succeeds: scrape_ip_data
\* returns the data and insert_data stores it.
ScrapeIpsStore(w) ==
    /\ source = "abuseipdb"
    /\ UNCHANGED notdedup
    /\ ip_list[w] # << >>
    /\ \E data \in ScrapedData(Head(ip_list[w])), dbok \in BOOLEAN :
         /\ AbuseIPDB_IP_Report' = insert_data(data, dbok)
         /\ last_op' = Op("insert_data", w, data.ip, dbok,
                          RowsOf(AbuseIPDB_IP_Report, data.ip), data)
    /\ ip_list' = [ip_list EXCEPT ![w] = Tail(@)]
    /\ after_stop' = fetch_started(w)
    /\ UNCHANGED <<Combined_IP_Score, Invalid_IPs, VirusTotal_IP_Info, now,
                   source, refused, halt, vt_ip, mark_called, mark_committed>>

\* What can raise inside the try of scrape_ip_data: the wait for
\* #report-wrapper times out (slow page, Cloudflare challenge, expired
\* cookies), or the page has loaded and a selector finds no element.
FetchErrors == {"TimeoutException", "JavascriptException"}

\* The except clause of scrape_ip_data tells the timeout apart for its log
\* message only.
IsTransient(err) == err = "TimeoutException"

\* scrape_ips, one turn of the for loop, the fetch fails inside the try of
\* scrape_ip_data: the ip is marked invalid and None is returned. The data
\* of the step is the exception that was caught.
ScrapeIpsMarkInvalid(w) ==
    /\ source = "abuseipdb"
    /\ UNCHANGED notdedup
    /\ ip_list[w] # << >>
    /\ \E dbok \in BOOLEAN, err \in FetchErrors :
         LET ip == Head(ip_list[w]) IN
         /\ Invalid_IPs' = mark_ip_as_invalid(ip, dbok)
         /\ mark_called' = mark_called \cup {ip}
         /\ mark_committed' = IF dbok THEN mark_committed \cup {ip} ELSE mark_committed
         /\ last_op' = Op("mark_ip_as_invalid", w, ip, dbok, {}, [error |-> err])
    /\ ip_list' = [ip_list EXCEPT ![w] = Tail(@)]
    /\ after_stop' = fetch_started(w)
    /\ UNCHANGED <<Combined_IP_Score, AbuseIPDB_IP_Report, VirusTotal_IP_Info, now,
                   source, refused, halt, vt_ip>>

\* scrape_ips, one turn of the for loop, driver.get raises before the try of
\* scrape_ip_data (or save_screenshot raises in its handler): the exception
\* leaves scrape_ips, nothing is marked and the batch is dropped.
ScrapeIpsRaise(w) ==
    /\ source = "abuseipdb"
    /\ UNCHANGED notdedup
    /\ ip_list[w] # << >>
    /\ ip_list' = [ip_list EXCEPT ![w] = << >>]
    /\ last_op' = Op("raise", w, Head(ip_list[w]), FALSE, {}, NoData)
    /\ after_stop' = fetch_started(w)
    /\ halt' = loop_test(w)
    /\ UNCHANGED <<dbvars, source, refused, vt_ip, mark_called, mark_committed>>

\* stop_collection, called from another thread while worker w is inside the
\* for loop of scrape_ips: self.running = False.
StopWhileScraping(w) ==
    /\ source = "abuseipdb"
    /\ UNCHANGED notdedup
    /\ halt[w] = "no"
    /\ ip_list[w] # << >>
    /\ halt' = [halt EXCEPT ![w] = "requested"]
    /\ last_op' = Op("stop_collection", w, NoIP, TRUE, {}, NoData)
    /\ UNCHANGED <<dbvars, source, refused, after_stop, ip_list, vt_ip, mark_called,
                   mark_committed>>

\* ------------------------------------------------------------------------
\* The dedup store: VirusTotalCollector
\* ------------------------------------------------------------------------
\* update_db: engine_detections = {engine['engine']: engine['status'] for ...},
\* a dict, so a later entry of the same engine replaces an earlier one.
engine_detections(engines) ==
    [e \in { engines[i].engine : i \in 1..Len(engines) } |->
        LET last == CHOOSE i \in 1..Len(engines) :
                        /\ engines[i].engine = e
                        /\ \A j \in 1..Len(engines) : engines[j].engine = e => j <= i
        IN engines[last].status]

\* The row update_db writes: the columns of the INSERT, update_time = CURRENT_TIMESTAMP.
VTRow(ip, data) ==
    [ip_address |-> ip, positive |-> data.positive,
     engine_detections |-> engine_detections(data.engines), update_time |-> now]

\* The join without its WHERE clause: every reported ip.
NeedsUpdateNoWhere == { r.ip_address : r \in AbuseIPDB_IP_Report }

\* The WHERE clause of get_ip_from_db over the LEFT JOIN: a reported ip with no
\* VirusTotal row, or with one older than a day.
NeedsUpdate ==
    { ip \in { r.ip_address : r \in AbuseIPDB_IP_Report } :
        \/ RowsOf(VirusTotal_IP_Info, ip) = {}
        \/ \E v \in RowsOf(VirusTotal_IP_Info, ip) : v.update_time < now - OneDay }

\* ORDER BY a.score DESC LIMIT 1: the ips get_ip_from_db can return, NoIP for
\* no row. A database error is caught and gives None.
get_ip_from_db(dbok) ==
    IF dbok /\ NeedsUpdate # {}
    THEN { ip \in NeedsUpdate :
             \E a \in RowsOf(AbuseIPDB_IP_Report, ip) :
                \A b \in AbuseIPDB_IP_Report :
                    b.ip_address \in NeedsUpdate => a.score >= b.score }
    ELSE { NoIP }

\* update_db(ip, data): VirusTotal_IP_Info afterwards. A database error is
\* caught and logged.
update_db(ip, data, dbok) ==
    IF dbok THEN Upsert(VirusTotal_IP_Info, VTRow(ip, data)) ELSE VirusTotal_IP_Info

\* One cycle of the VirusTotal loop, first half: ip = self.get_ip_from_db().
VTDiscover(w) ==
    /\ source = "virustotal"
    /\ UNCHANGED notdedup
    /\ vt_ip[w] = NoIP
    /\ \E dbok \in BOOLEAN : \E ip \in get_ip_from_db(dbok) :
         /\ vt_ip' = [vt_ip EXCEPT ![w] = ip]
         /\ last_op' = Op("get_ip_from_db", w, ip, dbok, {}, NoData)
    /\ UNCHANGED <<dbvars, source, refused, halt, after_stop, ip_list, mark_called, mark_committed>>

\* Second half, scrape(ip) returns a result: update_db stores it. The page of
\* a refused ip never gives one.
VTStore(w) ==
    /\ source = "virustotal"
    /\ UNCHANGED notdedup
    /\ vt_ip[w] # NoIP
    /\ vt_ip[w] \notin refused
    /\ \E data \in VTResults, dbok \in BOOLEAN :
         /\ VirusTotal_IP_Info' = update_db(vt_ip[w], data, dbok)
         /\ last_op' = Op("update_db", w, vt_ip[w], dbok,
                          RowsOf(VirusTotal_IP_Info, vt_ip[w]), data)
    /\ vt_ip' = [vt_ip EXCEPT ![w] = NoIP]
    /\ UNCHANGED <<Combined_IP_Score, AbuseIPDB_IP_Report, Invalid_IPs, now,
                   source, refused, halt, after_stop, ip_list, mark_called, mark_committed>>

\* Second half, scrape(ip) returns None or raises: nothing is stored or marked.
VTFail(w) ==
    /\ source = "virustotal"
    /\ UNCHANGED notdedup
    /\ vt_ip[w] # NoIP
    /\ vt_ip' = [vt_ip EXCEPT ![w] = NoIP]
    /\ last_op' = Op("scrape_failed", w, vt_ip[w], FALSE, {}, NoData)
    /\ UNCHANGED <<dbvars, source, refused, halt, after_stop, ip_list, mark_called, mark_committed>>

\* Time passes on the database server.
AdvanceClock ==
    /\ source = "virustotal"
    /\ UNCHANGED notdedup
    /\ now < MaxNow
    /\ now' = now + 1
    /\ last_op' = Op("clock", "db", NoIP, TRUE, {}, NoData)
    /\ UNCHANGED <<Combined_IP_Score, AbuseIPDB_IP_Report, Invalid_IPs,
                   VirusTotal_IP_Info, source, refused, halt, after_stop, ip_list, vt_ip, mark_called,
                   mark_committed>>

\* ------------------------------------------------------------------------
\* The scheduler: FlaskApp.start_scheduler and the schedule package
\* ------------------------------------------------------------------------
MaxTicks == 34       \* calls of run_pending followed

PhishingEvery == 30      \* schedule.every(30).seconds
OpenCTIEvery == 3600     \* schedule.every(1).hours, in seconds
SleepSeconds == 1        \* time.sleep(1) of run_schedule
RegisteredAt == 0        \* the time at which start_scheduler registers the jobs
NoneTime == 0 - 1        \* Job.last_run = None

\* The fixed-interval jobs, in the order start_scheduler registers them.
JobOrder == << "run_phishing_collector", "run_opencti_collector" >>
Jobs == Range(JobOrder)
Interval(j) == IF j = "run_phishing_collector" THEN PhishingEvery ELSE OpenCTIEvery
JobIndex(j) == CHOOSE i \in 1..Len(JobOrder) : JobOrder[i] = j

\* What a collector called by a job does, and the seconds it takes.
Handlers == {"returns", "raises"}
Durations == {0, 2}
\* time.sleep(1) returns after one second, or later.
Sleeps == {SleepSeconds, SleepSeconds + 1}

ExecutionRecord(j, outcome) == [job |-> j, outcome |-> outcome]

\* A run_*_collector job that lets the collector's exception through.
run_collector_unguarded(j, handler) ==
    IF handler = "raises"
    THEN [records |-> << >>, raised |-> TRUE]
    ELSE [records |-> << ExecutionRecord(j, "success") >>, raised |-> FALSE]

\* run_opencti_collector .. run_abuseipdb_sitemap_collector: try the collector,
\* log its success, or catch its Exception and log one error.
run_collector(j, handler) ==
    IF handler = "raises"
    THEN [records |-> << ExecutionRecord(j, "error") >>, raised |-> FALSE]
    ELSE [records |-> << ExecutionRecord(j, "success") >>, raised |-> FALSE]

\* Job.should_run: the job is due once the clock has reached next_run.
should_run(j) == sclock >= next_run[j]

\* A next-due time computed from the planned time instead of the actual one.
schedule_next_run_planned(j, t) == next_run[j] + Interval(j)

\* Job._schedule_next_run at time t: one period after the actual run.
schedule_next_run(j, t) == t + Interval(j)

\* sorted(runnable_jobs): by next_run, jobs of equal next_run in registration order.
RunsBefore(a, b) ==
    \/ next_run[a] < next_run[b]
    \/ next_run[a] = next_run[b] /\ JobIndex(a) < JobIndex(b)

RECURSIVE SortedJobs(_)
SortedJobs(S) ==
    IF S = {} THEN << >>
    ELSE LET first == CHOOSE j \in S : \A k \in S \ {j} : RunsBefore(j, k)
         IN << first >> \o SortedJobs(S \ {first})

\* The time a job's next run is counted from: its last run, or its registration.
Anchor(j) == IF last_run[j] = NoneTime THEN RegisteredAt ELSE last_run[j]

NoTick == [T |-> NoneTime, due |-> {}, ran |-> {}, raised |-> {},
           anchor |-> [j \in Jobs |-> RegisteredAt]]
NoRun == [job |-> None, handler |-> None, records |-> << >>,
          started |-> NoneTime, completed |-> NoneTime, due |-> NoneTime,
          prev_started |-> NoneTime, prev_completed |-> NoneTime]

\* Every due job started at the time of the call of run_pending, in a thread
\* of its own.
job_started_at_tick == tick.T

\* Job.run is called in the thread of run_pending, one job after the other:
\* a job starts at the time the clock has reached.
job_started == sclock

\* schedule.run_pending, first half: collect the jobs that are due now, sorted.
TickStart ==
    /\ spc = "run_pending"
    /\ ticks < MaxTicks
    /\ LET due == { j \in Jobs : should_run(j) }
       IN /\ runnable' = SortedJobs(due)
          /\ tick' = [T |-> sclock, due |-> due, ran |-> {}, raised |-> {},
                      anchor |-> [j \in Jobs |-> Anchor(j)]]
          /\ spc' = IF due = {} THEN "sleep" ELSE "running"
    /\ ticks' = ticks + 1
    /\ UNCHANGED <<sclock, next_run, last_run, sched_op>>
    /\ UNCHANGED notsched

\* schedule.run_pending, second half: Job.run of the next runnable job. The job
\* function is the run_*_collector wrapper; when it returns, last_run and
\* next_run are set from the clock. An exception it lets through leaves
\* run_pending, is logged by run_schedule, and the loop goes on without sleeping.
RunJob ==
    /\ spc = "running"
    /\ \E handler \in Handlers, d \in Durations :
         LET j == Head(runnable)
             r == run_collector(j, handler)
             done == sclock + d
         IN /\ sclock' = done
            /\ IF r.raised
               THEN /\ runnable' = << >>
                    /\ spc' = "run_pending"
                    /\ tick' = [tick EXCEPT !.ran = @ \cup {j}, !.raised = @ \cup {j}]
                    /\ sched_op' = [job |-> j, handler |-> handler,
                                    records |-> r.records \o << ExecutionRecord(None, "error") >>,
                                    started |-> job_started, completed |-> done,
                                    due |-> next_run[j],
                                    prev_started |-> sched_op.started,
                                    prev_completed |-> sched_op.completed]
                    /\ UNCHANGED <<next_run, last_run>>
               ELSE /\ last_run' = [last_run EXCEPT ![j] = done]
                    /\ next_run' = [next_run EXCEPT ![j] = schedule_next_run(j, done)]
                    /\ runnable' = Tail(runnable)
                    /\ spc' = IF Tail(runnable) = << >> THEN "sleep" ELSE "running"
                    /\ tick' = [tick EXCEPT !.ran = @ \cup {j},
                                            !.raised = IF handler = "raises" THEN @ \cup {j} ELSE @]
                    /\ sched_op' = [job |-> j, handler |-> handler, records |-> r.records,
                                    started |-> job_started, completed |-> done,
                                    due |-> next_run[j],
                                    prev_started |-> sched_op.started,
                                    prev_completed |-> sched_op.completed]
    /\ UNCHANGED ticks
    /\ UNCHANGED notsched

\* run_schedule: time.sleep(1) after run_pending has returned.
TickSleep ==
    /\ spc = "sleep"
    /\ \E s \in Sleeps : sclock' = sclock + s
    /\ spc' = "run_pending"
    /\ UNCHANGED <<next_run, last_run, runnable, tick, ticks, sched_op>>
    /\ UNCHANGED notsched

\* ------------------------------------------------------------------------
\* The continuous workers: collect_continuous and stop_collection of
\* AbuseIPDBCollector and VirusTotalCollector
\* ------------------------------------------------------------------------
MaxStreak == 3       \* consecutive failed cycles whose delays are kept
MaxAttempts == 3     \* acquisition attempts kept
MaxStarts == 1       \* later calls of start_*_collector followed

ErrorDelay == 60     \* time.sleep(60) after an error
EmptyDelay == 300    \* time.sleep(300) when there is nothing to process
ItemsDelay == 30     \* time.sleep(30) after an AbuseIPDB cycle with results
VTDelayMin == 30     \* time.sleep(random.randint(30, 40)) after a VirusTotal result
VTDelayMax == 40

\* The last n elements of s and e.
KeepLast(s, e, n) ==
    LET t == Append(s, e)
    IN IF Len(t) <= n THEN t ELSE SubSeq(t, Len(t) - n + 1, Len(t))

\* A cycle at its start. stale: the driver the cycle finds is not a live
\* session; db_error: a database call of the cycle has hit a database error.
NewCycle == [acquired |-> FALSE, discovered |-> FALSE, ip |-> FALSE, fetched |-> FALSE,
             stale |-> FALSE, db_error |-> FALSE]

\* No cycle has finished yet.
NoCycleEnd == [outcome |-> None, release |-> None]

\* The guard of the re-setup at the top of a cycle. AbuseIPDB: not hasattr(self,
\* 'driver') or not hasattr(self, 'conn'), and __init__ has set both attributes
\* and nothing deletes them. VirusTotal: not hasattr(self, 'driver') or not
\* self.driver.
needs_setup(cls, drv) ==
    IF cls = "abuseipdb" THEN FALSE ELSE drv # "open"

\* An error delay that differs between the two failure branches.
ErrorSleepUneven(branch) ==
    IF branch = "no_result" THEN ItemsDelay ELSE ErrorDelay

\* The delay slept after a failed cycle: in the except handler (the exception
\* came from the setup or from the scrape) and after a scrape without result.
ErrorSleep(branch) == ErrorDelay

\* A cycle that goes to sleep whatever discovery returned.
after_discover_skip(found) == "sleep"

\* VirusTotal, after get_ip_from_db: no ip, sleep and continue; else scrape it.
after_discover(found) == IF found THEN "fetch" ELSE "sleep"

\* AbuseIPDBCollector.close: driver.quit(), cur.close(), conn.close(), each of
\* which may raise; nothing in close catches.
close(drv, cn) ==
    { [driver |-> "quit", conn |-> "closed", raised |-> FALSE],
      [driver |-> drv,    conn |-> cn,       raised |-> TRUE],
      [driver |-> "quit", conn |-> cn,       raised |-> TRUE] }

\* The resources after the except handler of collect_continuous. AbuseIPDB
\* calls close() unguarded; VirusTotal quits the driver inside try/except and
\* sets it to None.
HandlerOutcomes(cls, drv, cn) ==
    IF cls = "abuseipdb"
    THEN close(drv, cn)
    ELSE { [driver |-> "none", conn |-> cn, raised |-> FALSE] }

\* The except handler of collect_continuous: log, release, sleep 60; an
\* exception raised by the release leaves collect_continuous.
HandleError(branch) ==
    \E h \in HandlerOutcomes(source, driver, conn) :
        /\ driver' = h.driver
        /\ conn' = h.conn
        /\ IF h.raised
           THEN /\ wpc' = "crashed"
                /\ nthreads' = nthreads - 1
                /\ cycle_end' = [outcome |-> "error", release |-> "raised"]
                /\ UNCHANGED <<delay, err_delays, err_first>>
           ELSE /\ wpc' = "sleep"
                /\ delay' = ErrorSleep(branch)
                /\ err_delays' = KeepLast(err_delays, ErrorSleep(branch), MaxStreak)
                /\ err_first' = IF err_delays = << >> THEN ErrorSleep(branch) ELSE err_first
                /\ cycle_end' = [outcome |-> "error", release |-> "done"]
                /\ UNCHANGED nthreads
        /\ UNCHANGED prev_streak

\* A failed cycle that does not pass through the except handler.
FailedCycle(branch) ==
    /\ wpc' = "sleep"
    /\ delay' = ErrorSleep(branch)
    /\ err_delays' = KeepLast(err_delays, ErrorSleep(branch), MaxStreak)
    /\ err_first' = IF err_delays = << >> THEN ErrorSleep(branch) ELSE err_first
    /\ cycle_end' = [outcome |-> "error", release |-> None]
    /\ UNCHANGED <<driver, conn, prev_streak, nthreads>>

\* A cycle without error that sleeps the delay of an empty cycle whatever
\* it has fetched.
GoodCycleOneDelay(kind, d) ==
    /\ wpc' = "sleep"
    /\ cycle_end' = [outcome |-> kind, release |-> None]
    /\ delay' = EmptyDelay
    /\ err_delays' = << >>
    /\ err_first' = 0
    /\ prev_streak' = Len(err_delays)
    /\ UNCHANGED <<driver, conn, nthreads>>

\* A cycle that ends without error, with items or empty, and sleeps d.
GoodCycle(kind, d) ==
    /\ wpc' = "sleep"
    /\ cycle_end' = [outcome |-> kind, release |-> None]
    /\ delay' = d
    /\ err_delays' = << >>
    /\ err_first' = 0
    /\ prev_streak' = Len(err_delays)
    /\ UNCHANGED <<driver, conn, nthreads>>

\* while self.running:
WhileRunning ==
    /\ wpc = "top"
    /\ IF running
       THEN /\ wpc' = "cycle"
            /\ cyc' = [NewCycle EXCEPT !.stale = (driver # "open")]
            /\ UNCHANGED nthreads
       ELSE /\ wpc' = "returned"
            /\ nthreads' = nthreads - 1
            /\ UNCHANGED cyc
    /\ UNCHANGED <<running, driver, conn, delay, err_delays, err_first, prev_streak,
                   acq_log, stop_at, fetch_after_stop, cycle_end, starts, restart>>
    /\ UNCHANGED notworker

\* The re-setup at the top of a cycle: setup_driver / setup_database /
\* add_cookies (AbuseIPDB), setup_webdriver (VirusTotal), which succeeds or raises.
CycleAcquire ==
    /\ wpc = "cycle"
    /\ IF ~ needs_setup(source, driver)
       THEN /\ wpc' = "work"
            /\ UNCHANGED <<driver, conn, delay, err_delays, err_first, prev_streak,
                           acq_log, cyc, cycle_end, nthreads>>
       ELSE \E ok \in BOOLEAN :
            /\ acq_log' = KeepLast(acq_log, [ok |-> ok, delay |-> delay], MaxAttempts)
            /\ IF ok
               THEN /\ driver' = "open"
                    /\ cyc' = [cyc EXCEPT !.acquired = TRUE]
                    /\ wpc' = "work"
                    /\ UNCHANGED <<conn, delay, err_delays, err_first, prev_streak,
                                   cycle_end, nthreads>>
               ELSE /\ HandleError("setup")
                    /\ UNCHANGED cyc
    /\ UNCHANGED <<running, stop_at, fetch_after_stop, starts, restart>>
    /\ UNCHANGED notworker

\* AbuseIPDB: results = self.scrape_ips(batch_size), then sleep 300 or 30.
\* add_cookies raises on a driver that has been quit; on an open driver the
\* cycle ends with results, without, or with an exception of the browser. A
\* database error inside get_ips_to_scrape, insert_data or mark_ip_as_invalid
\* is caught there: get_ips_to_scrape returns [] and the batch loop ends.
AbuseScrapeCycle ==
    /\ source = "abuseipdb"
    /\ wpc = "work"
    /\ IF driver # "open"
       THEN /\ HandleError("scrape")
            /\ UNCHANGED <<cyc, fetch_after_stop>>
       ELSE \E out \in {"items", "empty", "raises"}, fetched \in BOOLEAN, dbok \in BOOLEAN :
            /\ out = "items" => fetched
            /\ out = "empty" => ~ fetched
            /\ cyc' = [cyc EXCEPT !.discovered = TRUE, !.ip = fetched, !.fetched = fetched,
                                  !.db_error = ~ dbok]
            /\ fetch_after_stop' = (fetch_after_stop \/ (fetched /\ stop_at # None))
            /\ CASE out = "items" -> GoodCycle("items", ItemsDelay)
                 [] out = "empty" -> GoodCycle("empty", EmptyDelay)
                 [] out = "raises" -> HandleError("scrape")
    /\ UNCHANGED <<running, acq_log, stop_at, starts, restart>>
    /\ UNCHANGED notworker

\* VirusTotal: ip = self.get_ip_from_db(); no ip (or a database error, which
\* get_ip_from_db turns into None): sleep 300 and continue.
VTCycleDiscover ==
    /\ source = "virustotal"
    /\ wpc = "work"
    /\ \E found \in BOOLEAN, dbok \in BOOLEAN :
         /\ ~ dbok => ~ found
         /\ cyc' = [cyc EXCEPT !.discovered = TRUE, !.ip = found, !.db_error = ~ dbok]
         /\ IF after_discover(found) = "fetch"
            THEN /\ wpc' = "fetch"
                 /\ UNCHANGED <<driver, conn, delay, err_delays, err_first, prev_streak,
                                cycle_end, nthreads>>
            ELSE GoodCycle("empty", EmptyDelay)
    /\ UNCHANGED <<running, acq_log, stop_at, fetch_after_stop, starts, restart>>
    /\ UNCHANGED notworker

\* VirusTotal: result = self.scrape(ip); a result is stored and the worker
\* sleeps 30 to 40 seconds, no result costs 60 seconds, an exception goes to
\* the except handler. The driver stop_collection has set to None raises. A
\* database error inside update_db is caught there and logged.
VTCycleFetch ==
    /\ source = "virustotal"
    /\ wpc = "fetch"
    /\ fetch_after_stop' = (fetch_after_stop \/ stop_at # None)
    /\ IF driver # "open"
       THEN /\ cyc' = [cyc EXCEPT !.fetched = TRUE]
            /\ HandleError("scrape")
       ELSE \E res \in {"result", "no_result", "raises"}, dbok \in BOOLEAN :
            /\ res # "result" => dbok
            /\ cyc' = [cyc EXCEPT !.fetched = TRUE, !.db_error = ~ dbok]
            /\ CASE res = "result" ->
                       \E d \in VTDelayMin..VTDelayMax : GoodCycle("items", d)
                 [] res = "no_result" -> FailedCycle("no_result")
                 [] res = "raises" -> HandleError("scrape")
    /\ UNCHANGED <<running, acq_log, stop_at, starts, restart>>
    /\ UNCHANGED notworker

\* time.sleep returns.
WakeUp ==
    /\ wpc = "sleep"
    /\ wpc' = "top"
    /\ UNCHANGED <<running, driver, conn, delay, err_delays, err_first, prev_streak,
                   acq_log, cyc, stop_at, fetch_after_stop, cycle_end, nthreads, starts, restart>>
    /\ UNCHANGED notworker

\* stop_collection, called from another thread. AbuseIPDB: self.running =
\* False. VirusTotal: also quits the driver and sets it to None.
StopCollection ==
    /\ stop_at = None
    /\ wpc \notin {"returned", "crashed"}
    /\ running' = FALSE
    /\ stop_at' = wpc
    /\ driver' = IF source = "virustotal" THEN "none" ELSE driver
    /\ UNCHANGED <<wpc, conn, delay, err_delays, err_first, prev_streak, acq_log, cyc,
                   fetch_after_stop, cycle_end, nthreads, starts, restart>>
    /\ UNCHANGED notworker

\* start_abuseipdb_collector / start_virustotal_collector: a thread is created
\* and started if there is none or it is not alive any more.
must_start(thread_alive) == ~ thread_alive

\* Thread.is_alive of the thread start_*_collector has kept.
is_alive == wpc \notin {"returned", "crashed"}

\* A call of start_abuseipdb_collector / start_virustotal_collector. The
\* new thread enters collect_continuous on the same collector object, which
\* sets self.running = True.
StartCollector ==
    /\ starts < MaxStarts
    /\ starts' = starts + 1
    /\ restart' = IF stop_at = None THEN restart
                  ELSE IF must_start(is_alive) THEN "started" ELSE "ignored"
    /\ IF must_start(is_alive)
       THEN /\ nthreads' = nthreads + 1
            /\ wpc' = "top"
            /\ running' = TRUE
            /\ stop_at' = None
            /\ fetch_after_stop' = FALSE
       ELSE UNCHANGED <<nthreads, wpc, running, stop_at, fetch_after_stop>>
    /\ UNCHANGED <<driver, conn, delay, err_delays, err_first, prev_streak, acq_log, cyc,
                   cycle_end>>
    /\ UNCHANGED notworker

\* ------------------------------------------------------------------------
\* Publication: OpenCTICollector.save_indicators writes ./threat_intelligence,
\* ThreatIntelligenceService.load_latest_threat_intelligence reads it
\* ------------------------------------------------------------------------
MaxRuns == 2         \* runs of save_indicators followed, one file name each

\* The text json.dump writes, in the pieces that reach the file.
Artifact == << "[", "indicators", "]" >>

\* glob('*.json') sorted by ctime, newest first, at most seven: the files of
\* S in the order of their runs, the last run first.
RECURSIVE NewestFirst(_)
NewestFirst(S) ==
    IF S = {} THEN << >>
    ELSE LET newest == CHOOSE n \in S : \A m \in S : m <= n
         IN << newest >> \o NewestFirst(S \ {newest})

\* content.strip() is empty
IsBlank(content) == content = << >>

\* json.loads accepts the text: a list that has been closed.
json_loads_ok(content) ==
    /\ Len(content) >= 2
    /\ content[1] = "["
    /\ content[Len(content)] = "]"

ReaderIdle == [pc |-> "idle", list |-> << >>, merged |-> << >>, status |-> 0]

\* save_indicators: open(filename, 'w') creates the file of this run, empty,
\* under its final name in the directory the readers list.
SaveOpen ==
    /\ wr.pc = "idle"
    /\ wr.run < MaxRuns
    /\ wr' = [pc |-> "writing", run |-> wr.run + 1]
    /\ files' = ((wr.run + 1) :> << >>) @@ files
    /\ UNCHANGED <<rd, observed>>
    /\ UNCHANGED notpub

\* save_indicators: json.dump writes the next piece of the text.
SaveWrite ==
    /\ wr.pc = "writing"
    /\ Len(files[wr.run]) < Len(Artifact)
    /\ files' = [files EXCEPT ![wr.run] = Append(@, Artifact[Len(@) + 1])]
    /\ UNCHANGED <<wr, rd, observed>>
    /\ UNCHANGED notpub

\* save_indicators: the with block closes the file.
SaveClose ==
    /\ wr.pc = "writing"
    /\ files[wr.run] = Artifact
    /\ wr' = [wr EXCEPT !.pc = "idle"]
    /\ UNCHANGED <<files, rd, observed>>
    /\ UNCHANGED notpub

\* load_latest_threat_intelligence: find_latest_json_files lists the directory;
\* no file is a FileNotFoundError, answered 500.
ReadGlob ==
    /\ rd.pc = "idle"
    /\ IF DOMAIN files = {}
       THEN rd' = [ReaderIdle EXCEPT !.status = 500]
       ELSE rd' = [pc |-> "reading", list |-> NewestFirst(DOMAIN files),
                   merged |-> << >>, status |-> 0]
    /\ UNCHANGED <<files, wr, observed>>
    /\ UNCHANGED notpub

\* load_latest_threat_intelligence: open and read the next file of the list;
\* an empty text is a ValueError, a text json.loads rejects a JSONDecodeError,
\* both answered 500.
ReadFile ==
    /\ rd.pc = "reading"
    /\ rd.list # << >>
    /\ LET f == Head(rd.list)
           content == files[f]
       IN /\ observed' = observed \cup { [file |-> f, content |-> content] }
          /\ IF IsBlank(content) \/ ~ json_loads_ok(content)
             THEN rd' = [ReaderIdle EXCEPT !.status = 500]
             ELSE rd' = [rd EXCEPT !.list = Tail(@), !.merged = Append(@, content[2])]
    /\ UNCHANGED <<files, wr>>
    /\ UNCHANGED notpub

\* load_latest_threat_intelligence: every file is merged, answer 200.
ReadRespond ==
    /\ rd.pc = "reading"
    /\ rd.list = << >>
    /\ rd' = [ReaderIdle EXCEPT !.status = 200, !.merged = rd.merged]
    /\ UNCHANGED <<files, wr, observed>>
    /\ UNCHANGED notpub

\* ------------------------------------------------------------------------
\* Publication of rules: EmergingThreatCollector and RulesService
\* ------------------------------------------------------------------------
MaxDays == 2         \* dates followed
MaxCollects == 3     \* runs of EmergingThreatCollector.collect followed

Days == 1..MaxDays

\* The .rules files the index page lists, in the order of its rows.
RuleFiles == << "a.rules", "b.rules" >>

\* A dated directory that does not exist.
NoDir == [exists |-> FALSE, ctime |-> 0, files |-> {}]

\* No run has completed without a failure yet.
NoArtifact == [day |-> 0, files |-> {}]

\* get_daily_folder(rules_dir): rules_dir/<YYYY-MM-DD>, the directory of the day.
get_daily_folder(day) == day

\* os.makedirs(output_dir, exist_ok=True) at time stamp.
makedirs(dirs, d, stamp) ==
    IF dirs[d].exists THEN dirs
    ELSE [dirs EXCEPT ![d] = [exists |-> TRUE, ctime |-> stamp, files |-> {}]]

\* open(file_path, 'wb') and write: the file holds what run has downloaded. A
\* new entry changes the ctime of the directory, an overwrite does not.
write_file(dir, name, run) ==
    [exists |-> TRUE,
     ctime |-> IF \E f \in dir.files : f.name = name THEN dir.ctime ELSE run,
     files |-> { f \in dir.files : f.name # name } \cup { [name |-> name, run |-> run] }]

\* find_latest_directory: max(directories, key=os.path.getctime); no
\* directory raises FileNotFoundError (the empty set here).
find_latest_directory(dirs) ==
    { d \in Days : /\ dirs[d].exists
                   /\ \A o \in Days : dirs[o].exists => dirs[o].ctime <= dirs[d].ctime }

\* get_latest_rules_files: the zip of the *.rules files of the latest
\* directory, 404 if it has none, 500 on an exception.
get_latest_rules_files(dirs) ==
    IF find_latest_directory(dirs) = {}
    THEN { [status |-> 500, files |-> {}] }
    ELSE { IF dirs[d].files = {}
           THEN [status |-> 404, files |-> {}]
           ELSE [status |-> 200, files |-> dirs[d].files] : d \in find_latest_directory(dirs) }

\* No request has been answered.
NoAnswer == [status |-> 0, files |-> {}, expected |-> NoArtifact, idle |-> TRUE]

\* collect, lines 18-19: the directory of the day is made before anything is
\* fetched.
ETCollectStart ==
    /\ et.pc = "idle"
    /\ et.run < MaxCollects
    /\ rules_dirs' = makedirs(rules_dirs, get_daily_folder(today), et.run + 1)
    /\ et' = [pc |-> "fetch", day |-> get_daily_folder(today), todo |-> << >>,
              run |-> et.run + 1, failed |-> FALSE]
    /\ UNCHANGED <<today, published, rules_op>>
    /\ UNCHANGED notrules

\* collect, lines 21-23: _fetch_website_content. raise_for_status or a network
\* error ends collect in its except clause.
ETFetchIndex ==
    /\ et.pc = "fetch"
    /\ \E ok \in BOOLEAN :
         et' = IF ok THEN [et EXCEPT !.pc = "download", !.todo = RuleFiles]
                     ELSE [et EXCEPT !.pc = "idle", !.failed = TRUE]
    /\ UNCHANGED <<today, rules_dirs, published, rules_op>>
    /\ UNCHANGED notrules

\* _parse_and_download_files, one row: _download_file writes the file, or
\* logs the failure and goes on. After the last row collect logs "Rules
\* download completed successfully".
ETDownloadFile ==
    /\ et.pc = "download"
    /\ et.todo # << >>
    /\ \E ok \in BOOLEAN :
         LET dirs == IF ok
                     THEN [rules_dirs EXCEPT
                             ![et.day] = write_file(rules_dirs[et.day], Head(et.todo), et.run)]
                     ELSE rules_dirs
             failed == et.failed \/ ~ ok
             last == Tail(et.todo) = << >>
         IN /\ rules_dirs' = dirs
            /\ et' = [et EXCEPT !.todo = Tail(et.todo), !.failed = failed,
                                !.pc = IF last THEN "idle" ELSE "download"]
            /\ published' = IF last /\ ~ failed
                            THEN [day |-> et.day, files |-> dirs[et.day].files]
                            ELSE published
    /\ UNCHANGED <<today, rules_op>>
    /\ UNCHANGED notrules

\* GET of the latest rules: RulesService.get_latest_rules_files.
GetLatestRules ==
    /\ \E r \in get_latest_rules_files(rules_dirs) :
         rules_op' = [status |-> r.status, files |-> r.files,
                      expected |-> published, idle |-> (et.pc = "idle")]
    /\ UNCHANGED <<today, rules_dirs, et, published>>
    /\ UNCHANGED notrules

\* Midnight passes.
NextDay ==
    /\ today < MaxDays
    /\ today' = today + 1
    /\ UNCHANGED <<rules_dirs, et, published, rules_op>>
    /\ UNCHANGED notrules

\* ------------------------------------------------------------------------
\* Start of the application: FlaskApp.__init__
\* ------------------------------------------------------------------------
\* setup_collectors builds the collectors in this order.
SetupOrder == << "opencti", "emerging_threat", "phishing", "abuseipdb",
                 "abuseipdb_sitemap", "virustotal" >>

\* The jobs start_scheduler registers with schedule.
ScheduledJobs == { "phishing", "opencti", "emerging_threat", "phishing_data",
                   "abuseipdb_sitemap" }

\* The collectors that run in a thread of their own.
Continuous == { "abuseipdb", "virustotal" }

\* setup_collectors, one try block: the constructor of the next collector
\* returns, or raises; the except clause logs and raises again, and __init__
\* catches, logs "Failed to initialize collectors" and goes on without
\* start_scheduler. After the last block collectors_initialized = True.
SetupCollector ==
    /\ boot.pc = "setup"
    /\ \E ok \in BOOLEAN :
         boot' = IF ok
                 THEN [boot EXCEPT
                         !.initialized = @ \cup {SetupOrder[boot.next]},
                         !.next = @ + 1,
                         !.collectors_initialized = (boot.next = Len(SetupOrder)),
                         !.pc = IF boot.next = Len(SetupOrder) THEN "start" ELSE "setup"]
                 ELSE [boot EXCEPT !.pc = "done", !.failed = SetupOrder[boot.next]]
    /\ UNCHANGED job_results
    /\ UNCHANGED notboot

\* start_scheduler: returns at once unless collectors_initialized; registers
\* the jobs, starts the AbuseIPDB thread, the VirusTotal thread and then the
\* scheduler thread. A thread that cannot be started raises out of it.
StartScheduler ==
    /\ boot.pc = "start"
    /\ IF ~ boot.collectors_initialized
       THEN boot' = [boot EXCEPT !.pc = "done"]
       ELSE \E abuse_ok \in BOOLEAN, vt_ok \in BOOLEAN :
              boot' = [boot EXCEPT
                         !.pc = "done",
                         !.jobs = ScheduledJobs,
                         !.threads =
                             IF ~ abuse_ok THEN {}
                             ELSE IF ~ vt_ok THEN {"abuseipdb"}
                             ELSE {"abuseipdb", "virustotal", "scheduler"},
                         !.failed =
                             IF ~ abuse_ok THEN "abuseipdb"
                             ELSE IF ~ vt_ok THEN "virustotal" ELSE None]
    /\ UNCHANGED job_results
    /\ UNCHANGED notboot

\* run_schedule runs a job that is due: run_*_collector calls the collector
\* inside try/except and logs what it raises.
RunCollectorJob(j) ==
    /\ boot.pc = "done"
    /\ "scheduler" \in boot.threads
    /\ j \in boot.jobs
    /\ \E ok \in BOOLEAN :
         job_results' = [job_results EXCEPT ![j] = IF ok THEN "ok" ELSE "failed"]
    /\ UNCHANGED boot
    /\ UNCHANGED notboot

\* ------------------------------------------------------------------------
\* The candidate table: AbuseIPDBSitemapCollector
\* ------------------------------------------------------------------------
\* INSERT ... VALUES (ip, 0) that overwrites the score of an existing row.
insert_candidate_replacing(table, ip) ==
    [x \in DOMAIN table \cup {ip} |-> IF x = ip THEN 0 ELSE table[x]]

\* INSERT INTO Combined_IP_Score (ip_address, score) VALUES (ip, 0)
\* ON DUPLICATE KEY UPDATE ip_address = ip_address: a new row with score 0, an
\* existing row as it was.
insert_candidate(table, ip) ==
    [x \in DOMAIN table \cup {ip} |-> IF x \in DOMAIN table THEN table[x] ELSE 0]

\* The statements of one transaction, applied in turn.
RECURSIVE insert_all(_, _)
insert_all(table, ips) ==
    IF ips = {} THEN table
    ELSE LET ip == CHOOSE x \in ips : TRUE
         IN insert_all(insert_candidate(table, ip), ips \ {ip})

MaxPage == 2         \* most ips parse_ips finds on a page

\* What parse_ips can return for a page.
Pages == { ips \in SUBSET IPs : ips # {} /\ Cardinality(ips) <= MaxPage }

\* The record of a call: what it was, the ips of the page, the ips whose
\* INSERT was executed, whether the transaction committed, and the tables as
\* they were before.
SitemapOp(name, ips, executed, committed) ==
    [op |-> name, ips |-> ips, executed |-> executed, committed |-> committed,
     before |-> Combined_IP_Score, reports |-> AbuseIPDB_IP_Report, marks |-> Invalid_IPs]

\* load_existing_ips: processed_ips takes every ip_address of the table; a
\* database error is logged.
LoadExistingIps ==
    /\ \E dbok \in BOOLEAN :
         /\ processed_ips' = IF dbok THEN processed_ips \cup DOMAIN Combined_IP_Score
                                     ELSE processed_ips
         /\ sitemap_op' = SitemapOp("load_existing_ips", {}, {}, dbok)
    /\ UNCHANGED <<dbvars, ind, waits>>
    /\ UNCHANGED notfeed

\* save_ips_to_db(ips) for the ips of one page: connect, one INSERT for every
\* ip not in processed_ips, each followed by processed_ips.add(ip) unless it
\* raised, then commit. A commit that raises, like a connect that raises,
\* ends in the outer except clause and nothing is stored.
SaveIpsToDb ==
    /\ \E ips \in Pages, connected \in BOOLEAN, committed \in BOOLEAN :
         \E raised \in SUBSET (ips \ processed_ips) :
            LET executed == IF connected THEN (ips \ processed_ips) \ raised ELSE {}
            IN /\ ~ connected => (~ committed /\ raised = {})
               /\ processed_ips' = processed_ips \cup executed
               /\ Combined_IP_Score' = IF committed
                                         THEN insert_all(Combined_IP_Score, executed)
                                         ELSE Combined_IP_Score
               /\ sitemap_op' = SitemapOp("save_ips_to_db", ips, executed, committed)
    /\ UNCHANGED <<AbuseIPDB_IP_Report, Invalid_IPs, VirusTotal_IP_Info, now, ind, waits>>
    /\ UNCHANGED notfeed

\* ------------------------------------------------------------------------
\* OpenCTICollector.get_indicators
\* ------------------------------------------------------------------------
MaxLimit == 2        \* greatest config.opencti.limit
MaxEdges == 3        \* indicators a day can hold

\* The indicators of a day, newest first.
Edges(day, n) == [i \in 1..n |-> [day |-> day, id |-> i]]

\* An answer of query(): None (ok FALSE) or the data with its edges. The API
\* returns the first `first` indicators of the window.
Answer(ok, edges, first) ==
    [ok |-> ok, edges |-> IF ok THEN SubSeq(edges, 1, Min(first, Len(edges))) ELSE << >>]

\* get_indicators that asks for yesterday with the whole limit.
get_indicators_whole_limit(limit, today_ok, today_edges, yest_ok, yest) ==
    LET t == Answer(today_ok, today_edges, limit)
        y == Answer(yest_ok, yest, limit)
    IN IF ~ t.ok THEN [ok |-> FALSE, edges |-> << >>, asked |-> 0]
       ELSE IF Len(t.edges) < limit
            THEN [ok |-> TRUE, edges |-> t.edges \o y.edges, asked |-> limit]
            ELSE [ok |-> TRUE, edges |-> t.edges, asked |-> 0]

\* get_indicators: today's window with the limit; None if that query fails;
\* yesterday's window with what is left of the limit if today has fewer, its
\* edges appended if that query succeeds. asked is the limit of the second
\* query, 0 if it was not sent.
get_indicators(limit, today_ok, today_edges, yest_ok, yest) ==
    LET t == Answer(today_ok, today_edges, limit)
        remaining_limit == limit - Len(t.edges)
        y == Answer(yest_ok, yest, remaining_limit)
    IN IF ~ t.ok THEN [ok |-> FALSE, edges |-> << >>, asked |-> 0]
       ELSE IF Len(t.edges) < limit
            THEN [ok |-> TRUE, edges |-> t.edges \o y.edges, asked |-> remaining_limit]
            ELSE [ok |-> TRUE, edges |-> t.edges, asked |-> 0]

\* No run of save_indicators has been made.
NoRunYet == [pc |-> "idle", limit |-> 0, today_ok |-> FALSE, today |-> << >>,
             yest_ok |-> FALSE, yest |-> << >>,
             result |-> [ok |-> FALSE, edges |-> << >>, asked |-> 0], wrote |-> FALSE]

\* save_indicators: indicators = self.get_indicators(); no indicators raises
\* ValueError before anything is written, otherwise the file is written.
SaveIndicators ==
    /\ \E limit \in 1..MaxLimit, today_ok \in BOOLEAN, yest_ok \in BOOLEAN,
          nt \in 0..MaxEdges, ny \in 0..MaxEdges :
         LET r == get_indicators(limit, today_ok, Edges("today", nt),
                                 yest_ok, Edges("yesterday", ny))
         IN ind' = [pc |-> "done", limit |-> limit,
                    today_ok |-> today_ok, today |-> Edges("today", nt),
                    yest_ok |-> yest_ok, yest |-> Edges("yesterday", ny),
                    result |-> r, wrote |-> r.ok]
    /\ UNCHANGED <<dbvars, processed_ips, sitemap_op, waits>>
    /\ UNCHANGED notfeed

\* ------------------------------------------------------------------------
\* The waits of the fetches: a caller that waits for a page, an answer or a
\* line of input
\* ------------------------------------------------------------------------
MaxWait == 2         \* seconds a wait with a timeout lasts at most

NoTimeout == -1      \* the call is made without a timeout

\* The places where a collection step waits for something outside the process.
WaitSites == { "vt_scrape", "vt_handle_captcha", "abuseipdb_scrape_ip_data",
               "sitemap_fetch_page", "opencti_query" }

\* The upper bound the code gives the wait. scrape: WebDriverWait(driver, 10).
\* handle_captcha: after the automatic attempt has failed, input("Press Enter
\* after solving..."), which has none. scrape_ip_data: WebDriverWait(driver,
\* config.abuseipdb.request_time). fetch_page: session.get(url, cookies=...)
\* and query: requests.post(api_url, headers=..., json=..., verify=...), both
\* without timeout.
timeout_of(site) ==
    IF site \in {"vt_scrape", "abuseipdb_scrape_ip_data"} THEN MaxWait ELSE NoTimeout

NotWaiting == [pc |-> "idle", waited |-> 0, outcome |-> None]

\* The caller reaches the wait.
BeginWait(site) ==
    /\ waits[site].pc # "waiting"
    /\ waits' = [waits EXCEPT ![site] = [pc |-> "waiting", waited |-> 0, outcome |-> None]]
    /\ UNCHANGED <<dbvars, processed_ips, sitemap_op, ind>>
    /\ UNCHANGED notfeed

\* What the caller waits for arrives: the element, the answer, the line.
Arrive(site) ==
    /\ waits[site].pc = "waiting"
    /\ waits' = [waits EXCEPT ![site].pc = "returned", ![site].outcome = "answer"]
    /\ UNCHANGED <<dbvars, processed_ips, sitemap_op, ind>>
    /\ UNCHANGED notfeed

\* A second passes while the caller waits.
WaitSecond(site) ==
    /\ waits[site].pc = "waiting"
    /\ waits[site].waited < MaxWait
    /\ waits' = [waits EXCEPT ![site].waited = @ + 1]
    /\ UNCHANGED <<dbvars, processed_ips, sitemap_op, ind>>
    /\ UNCHANGED notfeed

\* The timeout of the wait expires: TimeoutException, a failure of this attempt.
Expire(site) ==
    /\ waits[site].pc = "waiting"
    /\ timeout_of(site) # NoTimeout
    /\ waits[site].waited >= timeout_of(site)
    /\ waits' = [waits EXCEPT ![site].pc = "returned", ![site].outcome = "timeout"]
    /\ UNCHANGED <<dbvars, processed_ips, sitemap_op, ind>>
    /\ UNCHANGED notfeed

\* ------------------------------------------------------------------------
\* Initial states and specifications
\* ------------------------------------------------------------------------
\* The score tables the workers start from: what the sitemap collector inserts
\* (every score 0), and one in which the reserved address ranks first.
ScoreTables ==
    { [ip \in IPs |-> 0],
      [ip \in IPs |-> IF is_valid_public_ip(ip) THEN 0 ELSE 90] }

\* The AbuseIPDB_IP_Report contents the VirusTotal workers start from: rows
\* insert_data has written, at most one per public ip.
ReportTables ==
    LET Pub == { ip \in IPs : is_valid_public_ip(ip) /\ ip # MarkedBefore }
        Rows(ip) == { ReportRow(d) : d \in ScrapedData(ip) }
    IN { t \in SUBSET (UNION { Rows(ip) : ip \in Pub }) :
           /\ t # {}
           /\ \A ip \in Pub : Cardinality(RowsOf(t, ip)) <= 1 }

\* The scheduler before start_scheduler has registered a job.
SchedIdle ==
    /\ sclock = RegisteredAt
    /\ next_run = [j \in Jobs |-> RegisteredAt + Interval(j)]
    /\ last_run = [j \in Jobs |-> NoneTime]
    /\ spc = "run_pending"
    /\ runnable = << >>
    /\ tick = NoTick
    /\ ticks = 0
    /\ sched_op = NoRun

\* The artifact directory before a collector has written and a request has come.
PubIdle ==
    /\ files = << >>
    /\ wr = [pc |-> "idle", run |-> 0]
    /\ rd = ReaderIdle
    /\ observed = {}

\* The rules directory before the first run of the collector.
RulesIdle ==
    /\ today = 1
    /\ rules_dirs = [d \in Days |-> NoDir]
    /\ et = [pc |-> "idle", day |-> 0, todo |-> << >>, run |-> 0, failed |-> FALSE]
    /\ published = NoArtifact
    /\ rules_op = NoAnswer

\* FlaskApp.__init__ before setup_collectors.
BootIdle ==
    /\ boot = [pc |-> "setup", next |-> 1, initialized |-> {},
               collectors_initialized |-> FALSE, failed |-> None,
               jobs |-> {}, threads |-> {}]
    /\ job_results = [j \in ScheduledJobs |-> None]

\* The sitemap collector after __init__, and no run of save_indicators.
FeedIdle ==
    /\ processed_ips = {}
    /\ sitemap_op = [op |-> "init", ips |-> {}, executed |-> {}, committed |-> FALSE,
                     before |-> << >>, reports |-> {}, marks |-> {}]
    /\ ind = NoRunYet
    /\ waits = [s \in WaitSites |-> NotWaiting]

\* A collector __init__ has built and collect_continuous has not been called.
WorkerIdle ==
    /\ running = FALSE
    /\ wpc = "top"
    /\ driver = "open"
    /\ conn = "open"
    /\ delay = 0
    /\ err_delays = << >>
    /\ err_first = 0
    /\ prev_streak = 0
    /\ acq_log = << >>
    /\ cyc = NewCycle
    /\ stop_at = None
    /\ fetch_after_stop = FALSE
    /\ cycle_end = NoCycleEnd
    /\ nthreads = 0
    /\ starts = 0
    /\ restart = None

\* The tables and workers before any collector has run.
TablesIdle ==
    /\ Combined_IP_Score = [ip \in IPs |-> 0]
    /\ AbuseIPDB_IP_Report = {}
    /\ Invalid_IPs = {}
    /\ VirusTotal_IP_Info = {}
    /\ now = 0
    /\ refused = {}
    /\ halt = [w \in Workers |-> "no"]
    /\ after_stop = [w \in Workers |-> 0]
    /\ ip_list = [w \in Workers |-> << >>]
    /\ vt_ip = [w \in Workers |-> NoIP]
    /\ last_op = Op("init", "db", NoIP, TRUE, {}, NoData)
    /\ mark_called = {}
    /\ mark_committed = {}

DedupIdle == source = "abuseipdb" /\ TablesIdle

\* SpecDedup follows the workers of one collector class over the tables. The
\* AbuseIPDB workers start from a table of candidates none of which has been
\* fetched and one of which an earlier run has marked invalid; the VirusTotal
\* workers, which only read AbuseIPDB_IP_Report, start from what the AbuseIPDB
\* workers have stored.
InitDedup ==
    /\ SchedIdle
    /\ WorkerIdle
    /\ PubIdle
    /\ RulesIdle
    /\ BootIdle
    /\ FeedIdle
    /\ source \in {"abuseipdb", "virustotal"}
    /\ Combined_IP_Score \in ScoreTables
    /\ IF source = "abuseipdb"
       THEN AbuseIPDB_IP_Report = {}
       ELSE AbuseIPDB_IP_Report \in ReportTables
    /\ Invalid_IPs = {MarkedBefore}
    /\ VirusTotal_IP_Info = {}
    /\ now = 0
    /\ refused = {}
    /\ halt = [w \in Workers |-> "no"]
    /\ after_stop = [w \in Workers |-> 0]
    /\ ip_list = [w \in Workers |-> << >>]
    /\ vt_ip = [w \in Workers |-> NoIP]
    /\ last_op = Op("init", "db", NoIP, TRUE, {}, NoData)
    /\ mark_called = {MarkedBefore}
    /\ mark_committed = {MarkedBefore}

NextDedup ==
    \/ \E w \in Workers : ScrapeIpsNextBatch(w)
    \/ \E w \in Workers : ScrapeIpsStore(w)
    \/ \E w \in Workers : ScrapeIpsMarkInvalid(w)
    \/ \E w \in Workers : ScrapeIpsRaise(w)
    \/ \E w \in Workers : VTDiscover(w)
    \/ \E w \in Workers : VTStore(w)
    \/ \E w \in Workers : VTFail(w)
    \/ AdvanceClock

SpecDedup == InitDedup /\ [][NextDedup]_vars

\* SpecCancel follows the AbuseIPDB workers with calls of stop_collection
\* that arrive while a worker is inside a batch.
InitCancel == InitDedup /\ source = "abuseipdb"

NextCancel ==
    \/ \E w \in Workers : ScrapeIpsNextBatch(w)
    \/ \E w \in Workers : ScrapeIpsStore(w)
    \/ \E w \in Workers : ScrapeIpsMarkInvalid(w)
    \/ \E w \in Workers : ScrapeIpsRaise(w)
    \/ \E w \in Workers : StopWhileScraping(w)

SpecCancel == InitCancel /\ [][NextCancel]_vars

\* SpecStarve follows the VirusTotal workers over a table of reported ips, at
\* most one of which VirusTotal refuses every time. Each worker keeps cycling:
\* a discovery whose query succeeds is taken whenever the worker is at the top
\* of its loop, a fetch that can succeed infinitely often does succeed and
\* stores, and a fetch that cannot succeed fails.
InitStarve ==
    /\ SchedIdle
    /\ WorkerIdle
    /\ PubIdle
    /\ RulesIdle
    /\ BootIdle
    /\ FeedIdle
    /\ source = "virustotal"
    /\ Combined_IP_Score \in ScoreTables
    /\ AbuseIPDB_IP_Report \in ReportTables
    /\ Invalid_IPs = {MarkedBefore}
    /\ VirusTotal_IP_Info = {}
    /\ now = 0
    /\ refused \in { r \in SUBSET NeedsUpdateNoWhere : Cardinality(r) <= 1 }
    /\ halt = [w \in Workers |-> "no"]
    /\ after_stop = [w \in Workers |-> 0]
    /\ ip_list = [w \in Workers |-> << >>]
    /\ vt_ip = [w \in Workers |-> NoIP]
    /\ last_op = Op("init", "db", NoIP, TRUE, {}, NoData)
    /\ mark_called = {MarkedBefore}
    /\ mark_committed = {MarkedBefore}

NextStarve ==
    \/ \E w \in Workers : VTDiscover(w)
    \/ \E w \in Workers : VTStore(w)
    \/ \E w \in Workers : VTFail(w)

\* What a cycle of a VirusTotal worker moves: the ip it holds and the rows.
progress == <<vt_ip, VirusTotal_IP_Info>>

SpecStarve ==
    /\ InitStarve
    /\ [][NextStarve]_vars
    /\ \A w \in Workers :
         /\ WF_progress(VTDiscover(w))
         /\ SF_progress(VTStore(w) /\ RowsOf(VirusTotal_IP_Info', vt_ip[w]) # {})
         /\ WF_progress(VTStore(w) \/ VTFail(w))

\* SpecSched follows the scheduler thread from the registration of the jobs
\* (every job due one interval later), and from the half minute before the
\* hourly job is first due, the 30-second job having run all along: its last
\* run was within the last 30 seconds.
InitSched ==
    /\ DedupIdle
    /\ WorkerIdle
    /\ PubIdle
    /\ RulesIdle
    /\ BootIdle
    /\ FeedIdle
    /\ spc = "run_pending"
    /\ runnable = << >>
    /\ tick = NoTick
    /\ ticks = 0
    /\ sched_op = NoRun
    /\ \/ /\ sclock = RegisteredAt
          /\ next_run = [j \in Jobs |-> RegisteredAt + Interval(j)]
          /\ last_run = [j \in Jobs |-> NoneTime]
       \/ /\ sclock = OpenCTIEvery - PhishingEvery
          /\ \E ran \in (sclock - PhishingEvery + 1)..sclock :
               /\ last_run = [j \in Jobs |-> IF j = "run_phishing_collector"
                                             THEN ran ELSE NoneTime]
               /\ next_run = [j \in Jobs |-> IF j = "run_phishing_collector"
                                             THEN ran + PhishingEvery
                                             ELSE RegisteredAt + OpenCTIEvery]

NextSched ==
    \/ TickStart
    \/ RunJob
    \/ TickSleep

SpecSched == InitSched /\ [][NextSched]_vars

\* SpecWorker follows the thread of one continuous collector from the call of
\* collect_continuous: __init__ has acquired the driver (and, AbuseIPDB, the
\* database connection; VirusTotal connects per query), running is True.
InitWorker ==
    /\ source \in {"abuseipdb", "virustotal"}
    /\ TablesIdle
    /\ SchedIdle
    /\ PubIdle
    /\ RulesIdle
    /\ BootIdle
    /\ FeedIdle
    /\ running = TRUE
    /\ wpc = "top"
    /\ driver = "open"
    /\ conn = IF source = "abuseipdb" THEN "open" ELSE "none"
    /\ delay = 0
    /\ err_delays = << >>
    /\ err_first = 0
    /\ prev_streak = 0
    /\ acq_log = << >>
    /\ cyc = NewCycle
    /\ stop_at = None
    /\ fetch_after_stop = FALSE
    /\ cycle_end = NoCycleEnd
    /\ nthreads = 1
    /\ starts = 0
    /\ restart = None

NextWorker ==
    \/ WhileRunning
    \/ CycleAcquire
    \/ AbuseScrapeCycle
    \/ VTCycleDiscover
    \/ VTCycleFetch
    \/ WakeUp
    \/ StopCollection

SpecWorker == InitWorker /\ [][NextWorker]_vars

\* The continuous collector with later calls of its start method.
NextThreads ==
    \/ WhileRunning
    \/ CycleAcquire
    \/ AbuseScrapeCycle
    \/ VTCycleDiscover
    \/ VTCycleFetch
    \/ WakeUp
    \/ StopCollection
    \/ StartCollector

SpecThreads == InitWorker /\ [][NextThreads]_vars

\* SpecPublish follows the scheduler thread inside save_indicators and one
\* request thread inside load_latest_threat_intelligence, from an empty
\* ./threat_intelligence directory.
InitPublish ==
    /\ DedupIdle
    /\ SchedIdle
    /\ WorkerIdle
    /\ PubIdle
    /\ RulesIdle
    /\ BootIdle
    /\ FeedIdle

NextPublish ==
    \/ SaveOpen
    \/ SaveWrite
    \/ SaveClose
    \/ ReadGlob
    \/ ReadFile
    \/ ReadRespond

SpecPublish == InitPublish /\ [][NextPublish]_vars

\* SpecRules follows the daily rules collection and the requests for the
\* latest rules.
InitRules ==
    /\ DedupIdle
    /\ SchedIdle
    /\ WorkerIdle
    /\ PubIdle
    /\ RulesIdle
    /\ BootIdle
    /\ FeedIdle

NextRules ==
    \/ ETCollectStart
    \/ ETFetchIndex
    \/ ETDownloadFile
    \/ GetLatestRules
    \/ NextDay

SpecRules == InitRules /\ [][NextRules]_vars

\* SpecBoot follows the construction of the application and the jobs of the
\* scheduler thread it has started.
InitBoot ==
    /\ DedupIdle
    /\ SchedIdle
    /\ WorkerIdle
    /\ PubIdle
    /\ RulesIdle
    /\ BootIdle
    /\ FeedIdle

NextBoot ==
    \/ SetupCollector
    \/ StartScheduler
    \/ \E j \in ScheduledJobs : RunCollectorJob(j)

SpecBoot == InitBoot /\ [][NextBoot]_vars

\* The candidate tables the sitemap collector starts from: some ips are there
\* already, one of them with a score, one reported and one marked invalid.
SitemapTables ==
    { [ip \in S |-> IF ip = <<8, 8, 8, 8>> THEN 90 ELSE 0] : S \in SUBSET IPs }

\* SpecSitemap follows the calls AbuseIPDBSitemapCollector.collect makes.
InitSitemap ==
    /\ source = "abuseipdb"
    /\ Combined_IP_Score \in SitemapTables
    /\ AbuseIPDB_IP_Report = { r \in UNION ReportTables : r.ip_address \in DOMAIN Combined_IP_Score }
    /\ Invalid_IPs = {MarkedBefore} \cap DOMAIN Combined_IP_Score
    /\ VirusTotal_IP_Info = {}
    /\ now = 0
    /\ refused = {}
    /\ halt = [w \in Workers |-> "no"]
    /\ after_stop = [w \in Workers |-> 0]
    /\ ip_list = [w \in Workers |-> << >>]
    /\ vt_ip = [w \in Workers |-> NoIP]
    /\ last_op = Op("init", "db", NoIP, TRUE, {}, NoData)
    /\ mark_called = Invalid_IPs
    /\ mark_committed = Invalid_IPs
    /\ SchedIdle
    /\ WorkerIdle
    /\ PubIdle
    /\ RulesIdle
    /\ BootIdle
    /\ FeedIdle

NextSitemap ==
    \/ LoadExistingIps
    \/ SaveIpsToDb

SpecSitemap == InitSitemap /\ [][NextSitemap]_vars

\* SpecIndicators follows runs of save_indicators over the answers of the API.
InitIndicators ==
    /\ DedupIdle
    /\ SchedIdle
    /\ WorkerIdle
    /\ PubIdle
    /\ RulesIdle
    /\ BootIdle
    /\ FeedIdle

NextIndicators == SaveIndicators

SpecIndicators == InitIndicators /\ [][NextIndicators]_vars

\* SpecWaits follows the waits of the fetches. Time passes and an expired
\* timeout is raised; nothing obliges the other side to answer.
InitWaits ==
    /\ DedupIdle
    /\ SchedIdle
    /\ WorkerIdle
    /\ PubIdle
    /\ RulesIdle
    /\ BootIdle
    /\ FeedIdle

NextWaits ==
    \E site \in WaitSites :
       \/ BeginWait(site)
       \/ Arrive(site)
       \/ WaitSecond(site)
       \/ Expire(site)

SpecWaits ==
    /\ InitWaits
    /\ [][NextWaits]_vars
    /\ \A site \in WaitSites : WF_waits(WaitSecond(site)) /\ WF_waits(Expire(site))

\* ------------------------------------------------------------------------
\* Claims about the dedup store (checked under SpecDedup)
\* ------------------------------------------------------------------------
IsStale(v) == v.update_time < now - OneDay

\* C1, as stated: once mark_ip_as_invalid(c) has been called, no later call of
\* get_ips_to_scrape returns c. Refuted: a call whose INSERT or commit raises a
\* database error is rolled back and leaves no mark.
C1_CalledNeverReturned ==
    last_op.op = "get_ips_to_scrape" =>
        \A c \in mark_called : c \notin Range(ip_list[last_op.worker])

\* C1, as amended: once mark_ip_as_invalid(c) has committed its row, no later
\* call of get_ips_to_scrape by any worker returns c, whatever the workers
\* have done in between.
C1_CommittedNeverReturned ==
    last_op.op = "get_ips_to_scrape" =>
        \A c \in mark_committed : c \notin Range(ip_list[last_op.worker])

\* C1 witness: a discovery that succeeds and returns a candidate after a mark
\* made by this run has committed.
C1_Witness ==
    /\ last_op.op = "get_ips_to_scrape"
    /\ last_op.ok
    /\ ip_list[last_op.worker] # << >>
    /\ mark_committed \ {MarkedBefore} # {}

\* C2: a committed write of a result for candidate c (insert_data into
\* AbuseIPDB_IP_Report, update_db into VirusTotal_IP_Info), by whichever
\* worker, leaves exactly one row for c, and that row holds the columns of the
\* result just written, whatever row c had before.
C2_UpsertLastWriteWins ==
    /\ (last_op.op = "insert_data" /\ last_op.ok) =>
          /\ Cardinality(RowsOf(AbuseIPDB_IP_Report, last_op.ip)) = 1
          /\ \A r \in RowsOf(AbuseIPDB_IP_Report, last_op.ip) :
                /\ r.isp = last_op.data.isp
                /\ r.score = last_op.data.score
                /\ r.label = json_label(last_op.data.label)
    /\ (last_op.op = "update_db" /\ last_op.ok) =>
          /\ Cardinality(RowsOf(VirusTotal_IP_Info, last_op.ip)) = 1
          /\ \A r \in RowsOf(VirusTotal_IP_Info, last_op.ip) :
                /\ r.positive = last_op.data.positive
                /\ r.engine_detections = engine_detections(last_op.data.engines)
                /\ r.update_time = now

\* C2 witness: a committed update_db over a row of the same ip that holds
\* another result and is less than a day old, so that the two writes come from
\* two workers that had discovered the ip at the same time.
C2_Witness ==
    /\ last_op.op = "update_db"
    /\ last_op.ok
    /\ \E old \in last_op.before :
          /\ old.positive # last_op.data.positive
          /\ ~ IsStale(old)

\* C3, as stated: discovery returns only candidates that have no mark: no
\* stored result and no invalid mark. Refuted by get_ip_from_db, which returns
\* a candidate again once its stored result is older than one day.
C3_OnlyUnmarked ==
    /\ last_op.op = "get_ips_to_scrape" =>
          \A c \in Range(ip_list[last_op.worker]) :
              /\ RowsOf(AbuseIPDB_IP_Report, c) = {}
              /\ c \notin Invalid_IPs
    /\ (last_op.op = "get_ip_from_db" /\ last_op.ip # NoIP) =>
          /\ RowsOf(VirusTotal_IP_Info, last_op.ip) = {}
          /\ last_op.ip \notin Invalid_IPs

\* C3, as amended: get_ips_to_scrape returns only candidates that have neither
\* a stored report nor an invalid mark; get_ip_from_db returns only a reported
\* candidate that has no stored VirusTotal result or whose stored result is
\* older than one day.
C3_OnlyUnmarkedOrStale ==
    /\ last_op.op = "get_ips_to_scrape" =>
          \A c \in Range(ip_list[last_op.worker]) :
              /\ RowsOf(AbuseIPDB_IP_Report, c) = {}
              /\ c \notin Invalid_IPs
    /\ (last_op.op = "get_ip_from_db" /\ last_op.ip # NoIP) =>
          /\ RowsOf(AbuseIPDB_IP_Report, last_op.ip) # {}
          /\ \A v \in RowsOf(VirusTotal_IP_Info, last_op.ip) : IsStale(v)

\* C3 witness: get_ips_to_scrape returns a candidate A while a candidate B is
\* marked invalid and a candidate C has a stored report.
C3_Witness ==
    /\ last_op.op = "get_ips_to_scrape"
    /\ ip_list[last_op.worker] # << >>
    /\ Invalid_IPs # {}
    /\ AbuseIPDB_IP_Report # {}

\* ------------------------------------------------------------------------
\* Claims about the scheduler (checked under SpecSched)
\* ------------------------------------------------------------------------
\* C4: a call of run_pending at time T runs a fixed-interval job of interval I
\* iff T >= last_run + I (its registration standing for the last run of a job
\* that has not run yet); after a run that ended at T', last_run is T' and the
\* next-due time is T' + I, which is never earlier than one interval after
\* the time the run was due.
C4_RunsIffDue ==
    /\ spc # "running" =>
         \A j \in Jobs : (j \in tick.ran) <=> (tick.T >= tick.anchor[j] + Interval(j))
    /\ sched_op.job \in Jobs =>
         /\ last_run[sched_op.job] = sched_op.completed
         /\ next_run[sched_op.job] = sched_op.completed + Interval(sched_op.job)
         /\ next_run[sched_op.job] >= sched_op.due + Interval(sched_op.job)
         /\ sched_op.started >= sched_op.due

\* The 30-second job has run late and has taken time, for the second time at
\* least, and the call of run_pending has returned.
C4_Witness ==
    /\ spc = "sleep"
    /\ tick.ran = {"run_phishing_collector"}
    /\ tick.anchor["run_phishing_collector"] # RegisteredAt
    /\ sched_op.started > sched_op.due
    /\ sched_op.completed > sched_op.started

\* C5: a run whose handler raises leaves exactly one execution record, of
\* outcome error, and every job that was due at a call of run_pending has run
\* when the call is over, whichever of them raised; the loop goes on to sleep
\* and to the next call.
C5_RaisingHandlerIsolated ==
    /\ sched_op.handler = "raises" =>
         sched_op.records = << ExecutionRecord(sched_op.job, "error") >>
    /\ sched_op.handler = "returns" =>
         sched_op.records = << ExecutionRecord(sched_op.job, "success") >>
    /\ spc # "running" => tick.ran = tick.due
    /\ (spc = "run_pending" /\ ticks > 0) => sclock > tick.T

\* Both jobs were due at one call of run_pending, the first one raised, and
\* the call has run both.
C5_Witness ==
    /\ spc = "sleep"
    /\ tick.due = Jobs
    /\ tick.ran = Jobs
    /\ "run_phishing_collector" \in tick.raised
    /\ sched_op.job = "run_opencti_collector"
    /\ sched_op.handler = "returns"

\* ------------------------------------------------------------------------
\* Claims about the continuous workers (checked under SpecWorker)
\* ------------------------------------------------------------------------
\* Attempts i, i+1, i+2 to acquire the session: two failures, then a success.
FailFailSucceed(i) ==
    /\ i + 2 <= Len(acq_log)
    /\ ~ acq_log[i].ok
    /\ ~ acq_log[i + 1].ok
    /\ acq_log[i + 2].ok

\* A cycle that has acquired the session goes on to discovery and fetches the
\* candidate discovery returns.
FetchesAfterAcquire ==
    (cyc.acquired /\ wpc = "sleep") =>
        /\ cyc.discovered
        /\ cyc.ip => cyc.fetched

C8_StopMidBackoffReleases ==
    (wpc = "returned" /\ stop_at = "sleep") =>
        /\ ~ fetch_after_stop
        /\ driver # "open"
        /\ conn # "open"

\* C9, as stated: no error leaves collect_continuous; it returns only after
\* stop_collection has set running to False. Refuted by AbuseIPDBCollector,
\* whose except handler calls close() unguarded.
C9_OnlyStopTerminates ==
    /\ wpc # "crashed"
    /\ wpc = "returned" => (~ running /\ stop_at # None)

\* ------------------------------------------------------------------------
\* Claims about publication (checked under SpecPublish)
\* ------------------------------------------------------------------------
\* C10, as stated: whatever a reader reads while a collector writes is a fully
\* written artifact. Refuted: save_indicators writes in place, under the name
\* the reader lists, so a read between open and close sees an empty or a
\* truncated text.
C10_ReadersSeeWholeArtifacts ==
    \A o \in observed : o.content = Artifact

\* ------------------------------------------------------------------------
\* Claims about published rules and about the start (SpecRules, SpecBoot)
\* ------------------------------------------------------------------------
\* C12, as stated: a request answered while no collection is running gets the
\* artifact of the last run that completed without a failure. Refuted:
\* EmergingThreatCollector.collect makes the directory of the day before it
\* fetches the index and writes each file it could download into it, so the
\* latest directory is empty or partial after a failed run.
C12_ServesLastCompleteArtifact ==
    (rules_op.status # 0 /\ rules_op.idle /\ rules_op.expected # NoArtifact) =>
        /\ rules_op.status = 200
        /\ rules_op.files = rules_op.expected.files

\* C13, as stated: whatever fails during the start, the scheduler thread is
\* started, and so is the thread of every continuous collector that has been
\* built. Refuted: every except clause of setup_collectors raises again, and
\* __init__ then skips start_scheduler.
C13_FailureIsolatedAtStart ==
    boot.pc = "done" =>
        /\ "scheduler" \in boot.threads
        /\ \A c \in Continuous : c \in boot.initialized => c \in boot.threads

\* ------------------------------------------------------------------------
\* Claims about failed fetches (checked under SpecDedup and SpecStarve)
\* ------------------------------------------------------------------------
\* C17, as stated: a candidate is marked invalid only on a definitive failure,
\* never after a timeout of the page. Refuted: the except clause of
\* scrape_ip_data marks the ip whatever exception it has caught.
C17_MarkedOnlyOnDefinitiveFailure ==
    last_op.op = "mark_ip_as_invalid" => ~ IsTransient(last_op.data.error)

\* Every reported ip VirusTotal does not refuse has a row in VirusTotal_IP_Info.
AllFetched ==
    \A ip \in NeedsUpdateNoWhere :
        ip \notin refused => RowsOf(VirusTotal_IP_Info, ip) # {}

\* C18, as stated: under fair scheduling of the workers, an ip whose fetch
\* fails every time is eventually not selected any more, and every other
\* reported ip is eventually fetched. Refuted: VirusTotalCollector marks
\* nothing, so get_ip_from_db returns the refused ip with the highest score
\* in every cycle and the ips below it are never selected.
C18_NoCandidateStarves ==
    /\ <>[](\A w \in Workers : vt_ip[w] \notin refused)
    /\ <>AllFetched

\* ------------------------------------------------------------------------
\* Claims about handles, threads and delays of the continuous collectors
\* (checked under SpecWorker and SpecThreads)
\* ------------------------------------------------------------------------
\* C11, as stated: a handle that has been released is never used for a later
\* unit of work: while no stop has been requested, a cycle that is about to
\* work holds a live browser session. Refuted by AbuseIPDBCollector: its except
\* handler releases driver and connection with close(), the hasattr test of the
\* next cycle still finds both attributes, and the cycle works on the driver
\* that has been quit.
C11_ReleasedHandleNeverUsed ==
    (wpc \in {"work", "fetch"} /\ stop_at = None) => driver = "open"

\* C14, as stated: a continuous collector has at most one thread, and exactly
\* one alive thread as long as no stop has been requested. Refuted through the
\* teardown of C9: the thread of AbuseIPDBCollector ends with an exception and
\* nothing calls the start method again.
C14_OneThreadUntilStop ==
    /\ nthreads <= 1
    /\ stop_at = None => nthreads = 1

\* C15, as stated: whenever the release of the except handler has run, it has
\* not raised, and neither the browser session nor the database connection is
\* left open. Refuted by AbuseIPDBCollector.close, which catches nothing: a
\* raising driver.quit() leaves the connection open, and the exception leaves
\* the handler.
C15_ReleaseCompletesQuietly ==
    (wpc \in {"sleep", "crashed"} /\ cycle_end.release # None) =>
        /\ cycle_end.release = "done"
        /\ driver # "open"
        /\ conn # "open"

\* C16, as stated: a cycle that starts with handles that are not live has
\* acquired a fresh session before it works. Refuted by AbuseIPDBCollector,
\* whose test at the top of the cycle only asks whether the attributes exist.
C16_StaleHandlesReacquired ==
    (wpc = "work" /\ cyc.stale /\ stop_at = None) => cyc.acquired

\* C19, as stated: a cycle in which a database call has failed ends as an
\* error and sleeps the error delay. Refuted: get_ip_from_db, update_db and
\* get_ips_to_scrape catch the database error themselves, and the loop sleeps
\* the delay of an empty or of a successful cycle.
C19_DbErrorSleepsErrorDelay ==
    (wpc = "sleep" /\ cyc.db_error) =>
        /\ cycle_end.outcome = "error"
        /\ delay = ErrorDelay

C21_NoFetchAfterStop ==
    \A w \in Workers : after_stop[w] <= 1

\* ------------------------------------------------------------------------
\* Claims about the batches of scrape_ips (checked under SpecDedup)
\* ------------------------------------------------------------------------
\* The candidates a batch may hold: unprocessed and public.
Eligible == { ip \in Unprocessed : is_valid_public_ip(ip) }

C27_EmptyOnlyWhenNoneEligible ==
    (/\ last_op.op = "get_ips_to_scrape"
     /\ last_op.ok
     /\ ip_list[last_op.worker] = << >>) => Eligible = {}

\* C28: every ip in processed_ips is a row of Combined_IP_Score, whatever
\* load_existing_ips and save_ips_to_db calls were made and however they ended.
C28_ProcessedAreStored == processed_ips \subseteq DOMAIN Combined_IP_Score

\* C29: save_ips_to_db leaves every row Combined_IP_Score had with its score,
\* adds rows only with score 0 and only for ips of the page, and leaves
\* AbuseIPDB_IP_Report and Invalid_IPs as they were.
C29_ExistingCandidatesUntouched ==
    sitemap_op.op = "save_ips_to_db" =>
        /\ \A ip \in DOMAIN sitemap_op.before :
              /\ ip \in DOMAIN Combined_IP_Score
              /\ Combined_IP_Score[ip] = sitemap_op.before[ip]
        /\ \A ip \in DOMAIN Combined_IP_Score \ DOMAIN sitemap_op.before :
              /\ ip \in sitemap_op.ips
              /\ Combined_IP_Score[ip] = 0
        /\ AbuseIPDB_IP_Report = sitemap_op.reports
        /\ Invalid_IPs = sitemap_op.marks

\* A committed save_ips_to_db that ran the INSERT for an ip already stored with
\* a score and reported, and for a new ip.
C29_Witness ==
    /\ sitemap_op.op = "save_ips_to_db"
    /\ sitemap_op.committed
    /\ \E ip \in sitemap_op.executed \cap DOMAIN sitemap_op.before :
          /\ sitemap_op.before[ip] = 90
          /\ RowsOf(sitemap_op.reports, ip) # {}
    /\ sitemap_op.executed \ DOMAIN sitemap_op.before # {}

\* What the API returned for today's window.
TodayReturned == SubSeq(ind.today, 1, Min(ind.limit, Len(ind.today)))

\* C30: get_indicators returns at most limit indicators; yesterday's window is
\* queried exactly when today's query succeeded with fewer than limit
\* indicators, and then with limit minus that count; if the yesterday query
\* fails the result is today's indicators; if the today query fails there is
\* no result and save_indicators writes no file.
C30_AtMostLimit ==
    ind.pc = "done" =>
        /\ Len(ind.result.edges) <= ind.limit
        /\ ind.result.asked > 0 <=> (ind.today_ok /\ Len(TodayReturned) < ind.limit)
        /\ ind.result.asked > 0 => ind.result.asked = ind.limit - Len(TodayReturned)
        /\ (ind.today_ok /\ ~ ind.yest_ok) =>
              (ind.result.ok /\ ind.result.edges = TodayReturned /\ ind.wrote)
        /\ ~ ind.today_ok => (~ ind.result.ok /\ ~ ind.wrote)

\* Today has fewer indicators than the limit and yesterday has more than what
\* is left: the result is filled up to the limit with yesterday's newest.
C30_Witness ==
    /\ ind.pc = "done"
    /\ ind.today_ok /\ ind.yest_ok
    /\ Len(ind.today) = 1
    /\ ind.limit = 2
    /\ Len(ind.yest) >= 2
    /\ Len(ind.result.edges) = 2
    /\ ind.result.edges[2].day = "yesterday"

\* C22, as stated: stop_collection never interrupts a fetch in flight: while
\* the worker of VirusTotalCollector is inside scrape(ip), the driver that
\* fetch uses is a live session. Refuted: stop_collection, called from another
\* thread, quits the driver and sets it to None without waiting for the worker.
C22_FetchKeepsItsHandle ==
    (source = "virustotal" /\ wpc = "fetch") => driver = "open"

\* C23, as stated: every wait of a fetch has an upper bound, so a caller that
\* waits eventually has an outcome. Refuted: fetch_page and query call requests
\* without timeout and handle_captcha falls back to input(); when nothing
\* arrives the caller waits forever.
C23_EveryWaitReturns ==
    \A site \in WaitSites : (waits[site].pc = "waiting") ~> (waits[site].pc = "returned")

\* C24: the scheduled jobs run one at a time, a job starting only when the
\* job before it has returned, and no due job is skipped: when a call of
\* run_pending is over, every job that was due at the time of the call has
\* run and no job is left with a due time that had passed at that time; a job
\* that became due while another job was running is run by the next call.
C24_OneAtATimeNoneSkipped ==
    /\ sched_op.job \in Jobs =>
         /\ sched_op.started >= sched_op.prev_completed
         /\ sched_op.started <= sched_op.completed
         /\ sclock >= sched_op.completed
    /\ spc = "sleep" =>
         /\ tick.due \subseteq tick.ran
         /\ \A j \in Jobs : next_run[j] > tick.T

\* The hourly job became due while the 30-second job was running, was not
\* among the jobs of that call, and the call after it has run it.
C24_Witness ==
    /\ spc = "sleep"
    /\ sched_op.job = "run_opencti_collector"
    /\ tick.ran = {"run_opencti_collector"}
    /\ sched_op.prev_started < sched_op.due
    /\ sched_op.due <= sched_op.prev_completed
    /\ sched_op.started >= sched_op.prev_completed

\* C25, as stated: once stop_collection has been called no cycle begins until
\* the worker is started again, and a start issued after a stop results in a
\* running worker. Refuted: start_abuseipdb_collector and
\* start_virustotal_collector do nothing while the stopped thread is still
\* alive, for instance asleep, and that thread then returns: no worker runs.
C25_StartAfterStopRuns ==
    /\ (stop_at # None /\ wpc = "cycle") => stop_at = "cycle"
    /\ restart # "ignored"

====
